---- MODULE Spec2Model ----
(***************************************************************************)
(* Model of scripts/eltr_polisher.py (centroFlye): the ELTR_Polisher       *)
(* pipeline  map_pos2read -> export_read_units -> run_polishing ->         *)
(* read_polishing -> compare_polished_sequences -> export_results.         *)
(*                                                                         *)
(* Python strings are sequences of code points, so that str.upper,         *)
(* str.replace, len and the ordering used by sorted() are computed.        *)
(***************************************************************************)
EXTENDS Integers, Sequences, FiniteSets, TLC

VARIABLES
    read_order,         \* keys of self.read_placement, in dict (file) order
    read_placement,     \* self.read_placement: r_id -> int or None
    motif_alignments,   \* self.motif_alignments: r_id -> sequence of r_al strings
    params_min_pos,     \* params.min_pos
    params_max_pos,     \* params.max_pos (Inf when not given)
    num_iters,          \* params.num_iters
    min_pos,            \* self.min_pos
    max_pos,            \* self.max_pos
    pos2read,           \* result of map_pos2read: position -> list of <<r_id, i>>
    resolved,           \* number of calls of map_pos2read so far
    filenames,          \* result of export_read_units: position -> exported record
    cur_pos,            \* loop variable of run_polishing
    invoked,            \* positions the external tool was invoked for, in order
    tool_exit,          \* exit status of each invocation, in order
    artifacts,          \* position -> number of polished_<i>.fasta files on disk
    final_sequences,    \* result of read_polishing: iteration -> full sequence
    report,             \* iteration pairs written by compare_polished_sequences
    exported,           \* iterations written by export_results
    error,              \* the exception that ended the run, or NoError
    pc                  \* position of run() (and of the constructor before it)

vars == <<read_order, read_placement, motif_alignments, params_min_pos,
          params_max_pos, num_iters, min_pos, max_pos, pos2read, resolved,
          filenames, cur_pos, invoked, tool_exit, artifacts, final_sequences,
          report, exported, error, pc>>

inputs == <<read_order, read_placement, motif_alignments, params_min_pos,
            params_max_pos, num_iters>>

----------------------------------------------------------------------------
(* Bounds of the model. *)

\* largest placement offset of a read
MaxPlace == 2
\* largest number of motif-alignment records of a read
MaxUnits == 3
\* largest params.num_iters
MaxIters == 2
\* largest number of calls of map_pos2read on one object
MaxResolves == 2
\* largest number of records of a read where the aligned strings vary
MaxUnitsExport == 2

----------------------------------------------------------------------------
(* Values. *)

\* an optional integer is <<>> (None) or <<n>>
None == <<>>
Some(n) == <<n>>
Val(x) == x[1]
\* math.inf, the default of params.max_pos; a given bound is Some(n)
Inf == <<>>
NoError == "none"

\* code points of the characters that occur
Ord == [dash |-> 45, zero |-> 48, one |-> 49, two |-> 50, eq |-> 61, A |-> 65, C |-> 67, G |-> 71,
        underscore |-> 95, a |-> 97, c |-> 99, d |-> 100, e |-> 101,
        g |-> 103, i |-> 105, n |-> 110, o |-> 111, p |-> 112, r |-> 114,
        s |-> 115, bar |-> 124]

Max2(a, b) == IF a >= b THEN a ELSE b
SetMin(S) == CHOOSE x \in S : \A y \in S : x <= y
SetMax(S) == CHOOSE x \in S : \A y \in S : x >= y

\* range(a, b) of Python, as a sequence
RECURSIVE PyRange(_, _)
PyRange(a, b) == IF a >= b THEN <<>> ELSE <<a>> \o PyRange(a + 1, b)

----------------------------------------------------------------------------
(* __init__ : the default of max_pos. *)

\* the loop of __init__ over read_placement.items(), up to the n-th read
RECURSIVE InitMaxPosLoop(_, _, _, _)
InitMaxPosLoop(order, placement, ma, n) ==
    IF n = 0 THEN 0
    ELSE LET prev == InitMaxPosLoop(order, placement, ma, n - 1)
             r_id == order[n]
             pos  == placement[r_id]
         IN  IF pos = None THEN prev
             ELSE Max2(prev, Val(pos) + Len(ma[r_id]))

\* variant: the default as the last position of an occurrence
InitMaxPosInclusive(order, placement, ma, p_max) ==
    IF p_max = Inf THEN InitMaxPosLoop(order, placement, ma, Len(order)) - 1
    ELSE Val(p_max)
\* lines 43-51 as written
InitMaxPos(order, placement, ma, p_max) ==
    IF p_max = Inf THEN InitMaxPosLoop(order, placement, ma, Len(order))
    ELSE Val(p_max)

----------------------------------------------------------------------------
(* map_pos2read *)

\* the occurrence indices of a read that are considered (lines 59-62)
\* variant: 'and' for 'or' in line 59
PositionsBuggyAnd(pos, n, lo, hi) ==
    IF pos = lo /\ pos + n = hi THEN PyRange(0, n) ELSE PyRange(1, n - 1)
\* variant: every occurrence of every read
PositionsAlways(pos, n, lo, hi) == PyRange(0, n)
\* lines 59-62 as written
Positions(pos, n, lo, hi) ==
    IF pos = lo \/ pos + n = hi THEN PyRange(0, n) ELSE PyRange(1, n - 1)

\* whether the read is skipped altogether (line 56)
Skipped(pos, hi) == pos = None \/ Val(pos) > hi

\* pos2read[pos + i].append((r_id, i)) on a defaultdict(list)
Append2(d, key, val) ==
    IF key \in DOMAIN d
    THEN [d EXCEPT ![key] = Append(@, val)]
    ELSE [k \in DOMAIN d \cup {key} |-> IF k = key THEN <<val>> ELSE d[k]]

\* the test of line 64
\* variant: the lower bound alone
InWindowLowerOnly(lo, hi, x) == lo <= x
\* line 64 as written
InWindow(lo, hi, x) == lo <= x /\ x <= hi

\* the inner loop (lines 63-65) over the first k entries of positions
RECURSIVE MapOneRead(_, _, _, _, _, _, _)
MapOneRead(d, r_id, pos, positions, k, lo, hi) ==
    IF k = 0 THEN d
    ELSE LET prev == MapOneRead(d, r_id, pos, positions, k - 1, lo, hi)
             i    == positions[k]
         IN  IF InWindow(lo, hi, pos + i)
             THEN Append2(prev, pos + i, <<r_id, i>>)
             ELSE prev

\* the outer loop (lines 55-65) over the first n reads
RECURSIVE MapReads(_, _, _, _, _, _)
MapReads(order, placement, ma, n, lo, hi) ==
    IF n = 0 THEN <<>>
    ELSE LET prev == MapReads(order, placement, ma, n - 1, lo, hi)
             r_id == order[n]
             pos  == placement[r_id]
         IN  IF Skipped(pos, hi) THEN prev
             ELSE LET positions ==
                          Positions(Val(pos), Len(ma[r_id]), lo, hi)
                  IN  MapOneRead(prev, r_id, Val(pos), positions,
                                 Len(positions), lo, hi)

\* variant: an unknown placement taken for position 0
map_pos2read_NoneAsZero(order, placement, ma, lo, hi) ==
    MapReads(order,
             [r \in DOMAIN placement |->
                 IF placement[r] = None THEN Some(0) ELSE placement[r]],
             ma, Len(order), lo, hi)
\* map_pos2read, lines 53-66
map_pos2read(order, placement, ma, lo, hi) ==
    MapReads(order, placement, ma, Len(order), lo, hi)

----------------------------------------------------------------------------
(* Strings. *)

\* str.upper() on one code point (ASCII letters)
UpperChar(ch) == IF 97 <= ch /\ ch <= 122 THEN ch - 32 ELSE ch

\* r_al.upper()
Upper(str) == [k \in 1..Len(str) |-> UpperChar(str[k])]

\* str.replace('-', '')
RECURSIVE StripGaps(_)
StripGaps(str) ==
    IF str = <<>> THEN <<>>
    ELSE IF Head(str) = Ord.dash THEN StripGaps(Tail(str))
    ELSE <<Head(str)>> \o StripGaps(Tail(str))

\* r_al.upper().replace('-', '')   (line 80)
Clean(r_al) == StripGaps(Upper(r_al))

\* str(n) of a non-negative integer
RECURSIVE Digits(_)
Digits(n) ==
    IF n < 10 THEN <<Ord.zero + n>>
    ELSE Digits(n \div 10) \o <<Ord.zero + (n % 10)>>

\* the literal parts of the f-string of line 81
GenPosEq == <<Ord.g, Ord.e, Ord.n, Ord.underscore, Ord.p, Ord.o, Ord.s, Ord.eq>>
BarRIdEq == <<Ord.bar, Ord.r, Ord.underscore, Ord.i, Ord.d, Ord.eq>>
BarRPosEq == <<Ord.bar, Ord.r, Ord.underscore, Ord.p, Ord.o, Ord.s, Ord.eq>>

\* f'gen_pos={pos}|r_id={r_id}|r_pos={p}'   (line 81)
SeqName(pos, r_id, p) ==
    GenPosEq \o Digits(pos) \o BarRIdEq \o r_id \o BarRPosEq \o Digits(p)

\* a < b for Python strings: code point by code point, a proper prefix first
RECURSIVE StrLess(_, _)
StrLess(a, b) ==
    IF b = <<>> THEN FALSE
    ELSE IF a = <<>> THEN TRUE
    ELSE IF Head(a) # Head(b) THEN Head(a) < Head(b)
    ELSE StrLess(Tail(a), Tail(b))

\* sorted() of a set of distinct strings (the keys of a dict)
RECURSIVE SortedStrings(_)
SortedStrings(S) ==
    IF S = {} THEN <<>>
    ELSE LET m == CHOOSE x \in S : \A y \in S \ {x} : StrLess(x, y)
         IN  <<m>> \o SortedStrings(S \ {m})

\* sorted() of a list of integers
RECURSIVE InsertSorted(_, _)
InsertSorted(sorted, x) ==
    IF sorted = <<>> THEN <<x>>
    ELSE IF x <= Head(sorted) THEN <<x>> \o sorted
    ELSE <<Head(sorted)>> \o InsertSorted(Tail(sorted), x)

RECURSIVE SortedInts(_)
SortedInts(list) ==
    IF list = <<>> THEN <<>>
    ELSE InsertSorted(SortedInts(Tail(list)), Head(list))

\* statistics.median_high of a non-empty list: sorted(data)[n // 2]
median_high(data) == SortedInts(data)[(Len(data) \div 2) + 1]

----------------------------------------------------------------------------
(* export_read_units *)

\* a dict: its keys in insertion order, and its values
EmptyDict == [keys |-> <<>>, val |-> <<>>]
DictSet(d, key, v) ==
    IF \E k \in 1..Len(d.keys) : d.keys[k] = key
    THEN [d EXCEPT !.val[key] = v]
    ELSE [keys |-> Append(d.keys, key),
          val  |-> [x \in DOMAIN d.val \cup {key} |->
                        IF x = key THEN v ELSE d.val[x]]]
DictValues(d) == [k \in 1..Len(d.keys) |-> d.val[d.keys[k]]]
DictKeySet(d) == {d.keys[k] : k \in 1..Len(d.keys)}

\* the loop of lines 78-81 over the first n entries of the pool
RECURSIVE ReadUnits(_, _, _, _)
ReadUnits(pos, pool, ma, n) ==
    IF n = 0 THEN EmptyDict
    ELSE LET r_id == pool[n][1]
             p    == pool[n][2]
             r_al == Clean(ma[r_id][p + 1])
         IN  DictSet(ReadUnits(pos, pool, ma, n - 1),
                     SeqName(pos, r_id, p), r_al)

\* the order in which lines 85-90 scan the candidates
\* variant: the keys unsorted, in insertion order
ScanOrderInsertion(seqs) == seqs.keys
\* line 85 as written: sorted(seqs.keys())
ScanOrder(seqs) == SortedStrings(DictKeySet(seqs))

\* lines 84-90: the first key, in scan order, of a sequence of length med_len
RECURSIVE FirstOfLength(_, _, _, _)
FirstOfLength(seqs, order, k, med_len) ==
    IF k > Len(order) THEN None
    ELSE IF Len(seqs.val[order[k]]) = med_len THEN Some(order[k])
    ELSE FirstOfLength(seqs, order, k + 1, med_len)

\* the length the representative must have (lines 82-83)
\* variant: statistics.median_low
MedLenLow(seqs) ==
    LET data == [k \in 1..Len(seqs.keys) |-> Len(DictValues(seqs)[k])]
    IN  SortedInts(data)[((Len(data) - 1) \div 2) + 1]
\* lines 82-83 as written
MedLen(seqs) ==
    median_high([k \in 1..Len(seqs.keys) |-> Len(DictValues(seqs)[k])])

\* the body of the loop of export_read_units for one position (lines 71-96):
\* what is written for it, or the exception raised
ExportPosition(pos, pool, ma) ==
    LET seqs == ReadUnits(pos, pool, ma, Len(pool))
    IN  IF Len(seqs.keys) = 0
        THEN [err |-> "StatisticsError"]
        ELSE LET med_len  == MedLen(seqs)
                 template == FirstOfLength(seqs, ScanOrder(seqs), 1, med_len)
             IN  IF template = None
                 THEN [err |-> "KeyError"]
                 ELSE IF Len(seqs.val[Val(template)]) # med_len
                 THEN [err |-> "AssertionError"]
                 ELSE [err |-> NoError,
                       read_units |-> seqs,
                       med_len |-> med_len,
                       template_read |-> Val(template),
                       median_read_unit |-> seqs.val[Val(template)]]

\* export_read_units: position -> what was written (lines 68-97)
export_read_units(p2r, ma) ==
    [pos \in DOMAIN p2r |-> ExportPosition(pos, p2r[pos], ma)]

----------------------------------------------------------------------------
(* run_polishing and read_polishing *)

\* min(read_unit_filenames.keys()), max(...): ValueError on an empty dict
KeysMin(f) == SetMin(DOMAIN f)
KeysMax(f) == SetMax(DOMAIN f)

\* the sequence the external tool leaves in polished_<i>.fasta of pos_<pos>:
\* one polished unit, told apart by position and round
PolishedUnit(pos, i) == << <<pos, i>> >>

\* read_bio_seq(polished_seq_fn): the content of the file, None when there
\* is no such file (the call raises)
read_bio_seq(disk, pos, i) ==
    IF pos \in DOMAIN disk /\ i \in DOMAIN disk[pos]
    THEN Some(disk[pos][i])
    ELSE None

\* ''.join(list of strings)
RECURSIVE Join(_)
Join(list) == IF list = <<>> THEN <<>> ELSE Head(list) \o Join(Tail(list))

\* the positions line 128 concatenates
AssembledRange(f) == PyRange(KeysMin(f), KeysMax(f) + 1)

\* lines 122-126 for round i: polished_seqs after the loop over the items;
\* entries of files that could not be read are left as they were
\* variant: an entry once read is kept for the later rounds
ReadRoundStale(f, disk, polished_seqs, i) ==
    [pos \in DOMAIN f |->
        IF pos \in DOMAIN polished_seqs THEN polished_seqs[pos]
        ELSE Val(read_bio_seq(disk, pos, i))]
\* lines 122-126 as written: every entry is overwritten in every round
ReadRound(f, disk, polished_seqs, i) ==
    [pos \in DOMAIN f |-> Val(read_bio_seq(disk, pos, i))]

\* whether every file of round i can be read
RoundReadable(f, disk, i) ==
    \A pos \in DOMAIN f : read_bio_seq(disk, pos, i) # None

\* the loop of lines 121-130 up to round n: final_sequences and polished_seqs,
\* or the first exception
RECURSIVE ReadRounds(_, _, _)
ReadRounds(f, disk, n) ==
    IF n = 0 THEN [err |-> NoError, final |-> <<>>, polished_seqs |-> <<>>]
    ELSE LET prev == ReadRounds(f, disk, n - 1)
         IN  IF prev.err # NoError THEN prev
             ELSE IF ~RoundReadable(f, disk, n)
             THEN [prev EXCEPT !.err = "MissingArtifactError"]
             ELSE LET ps == ReadRound(f, disk, prev.polished_seqs, n)
                      rg == AssembledRange(f)
                  IN  IF \E k \in 1..Len(rg) : rg[k] \notin DOMAIN ps
                      THEN [prev EXCEPT !.err = "KeyError"]
                      ELSE [err |-> NoError,
                            final |-> Append(prev.final,
                                Join([k \in 1..Len(rg) |-> ps[rg[k]]])),
                            polished_seqs |-> ps]

read_polishing(f, disk, iters) == ReadRounds(f, disk, iters)

----------------------------------------------------------------------------
(* Inputs. *)

\* read identifiers "r1", "r10", "r2"
R1 == <<Ord.r, Ord.one>>
R10 == <<Ord.r, Ord.one, Ord.zero>>
R2 == <<Ord.r, Ord.two>>

\* aligned read substrings "-a-c" and "AcG"
RAlChoices == { <<Ord.dash, Ord.a, Ord.dash, Ord.c>>,
                <<Ord.A, Ord.c, Ord.G>> }

\* alignments of n records
AlignmentsOfLen(n) == [1..n -> RAlChoices]
\* alignments whose records all carry the same string
UniformAlignments ==
    { [k \in 1..n |-> <<Ord.a, Ord.dash, Ord.c>>] : n \in 1..MaxUnits }
\* alignments whose records vary
VariedAlignments == UNION { AlignmentsOfLen(n) : n \in 1..MaxUnitsExport }

Placements == {None} \cup { Some(p) : p \in 0..MaxPlace }
Windows == [lo : 0..1, hi : {Inf} \cup { Some(p) : p \in 0..(MaxPlace + 1) }]

\* the orders in which the placement file can list two or three of the reads
ReadOrders ==
    { <<a, b>> : a \in {R1, R10, R2}, b \in {R1, R10, R2} } \cup
    { <<a, b, c>> : a \in {R1, R10, R2}, b \in {R1, R10, R2}, c \in {R1, R10, R2} }
DistinctOrders ==
    { o \in ReadOrders : \A j, k \in 1..Len(o) : j # k => o[j] # o[k] }

SeqSet(seq) == { seq[k] : k \in 1..Len(seq) }

\* the state before the constructor has run
Fresh ==
    /\ min_pos = 0
    /\ max_pos = 0
    /\ pos2read = <<>>
    /\ resolved = 0
    /\ filenames = <<>>
    /\ cur_pos = 0
    /\ invoked = <<>>
    /\ tool_exit = <<>>
    /\ artifacts = <<>>
    /\ final_sequences = <<>>
    /\ report = <<>>
    /\ exported = {}
    /\ error = NoError
    /\ pc = "new"

\* two reads, any placement and window: the whole run
Init ==
    /\ read_order = <<R1, R2>>
    /\ read_placement \in [SeqSet(read_order) -> Placements]
    /\ motif_alignments \in [SeqSet(read_order) -> UniformAlignments]
    /\ \E w \in Windows : params_min_pos = w.lo /\ params_max_pos = w.hi
    /\ num_iters \in 1..MaxIters
    /\ Fresh

\* three reads, any placement and window: the constructor and the resolver
InitResolve ==
    /\ read_order = <<R1, R10, R2>>
    /\ read_placement \in [SeqSet(read_order) -> Placements]
    /\ motif_alignments \in [SeqSet(read_order) -> UniformAlignments]
    /\ \E w \in Windows : params_min_pos = w.lo /\ params_max_pos = w.hi
    /\ num_iters = 1
    /\ Fresh

\* two or three reads in any order, all placed at the start of the window,
\* any aligned strings: the pools and their representatives
InitUnits ==
    /\ read_order \in DistinctOrders
    /\ read_placement = [r \in SeqSet(read_order) |-> Some(0)]
    /\ motif_alignments \in [SeqSet(read_order) -> VariedAlignments]
    /\ params_min_pos = 0
    /\ params_max_pos = Inf
    /\ num_iters = 1
    /\ Fresh

----------------------------------------------------------------------------
(* The constructor and the steps of run(). *)

\* __init__, lines 43-51
Construct ==
    /\ pc = "new"
    /\ min_pos' = params_min_pos
    /\ max_pos' = InitMaxPos(read_order, read_placement, motif_alignments,
                             params_max_pos)
    /\ pc' = "run"
    /\ UNCHANGED <<inputs, pos2read, resolved, filenames, cur_pos, invoked,
                   tool_exit, artifacts, final_sequences, report, exported,
                   error>>

\* line 160: pos2read = self.map_pos2read()
MapPos2Read ==
    /\ pc = "run"
    /\ pos2read' = map_pos2read(read_order, read_placement, motif_alignments,
                                min_pos, max_pos)
    /\ resolved' = resolved + 1
    /\ pc' = "mapped"
    /\ UNCHANGED <<inputs, min_pos, max_pos, filenames, cur_pos, invoked,
                   tool_exit, artifacts, final_sequences, report, exported,
                   error>>

\* a further call of map_pos2read on the same object
MapPos2ReadAgain ==
    /\ pc = "mapped"
    /\ resolved < MaxResolves
    /\ pos2read' = map_pos2read(read_order, read_placement, motif_alignments,
                                min_pos, max_pos)
    /\ resolved' = resolved + 1
    /\ UNCHANGED <<inputs, min_pos, max_pos, filenames, cur_pos, invoked,
                   tool_exit, artifacts, final_sequences, report, exported,
                   error, pc>>

\* line 161: read_unit_filenames = self.export_read_units(pos2read)
ExportReadUnits ==
    /\ pc = "mapped"
    /\ LET f == export_read_units(pos2read, motif_alignments)
           bad == { pos \in DOMAIN f : f[pos].err # NoError }
       IN  IF bad = {}
           THEN /\ filenames' = f
                /\ pc' = "exported"
                /\ error' = error
           ELSE /\ filenames' = filenames
                /\ pc' = "failed"
                /\ error' = f[CHOOSE pos \in bad : TRUE].err
    /\ UNCHANGED <<inputs, min_pos, max_pos, pos2read, resolved, cur_pos,
                   invoked, tool_exit, artifacts, final_sequences, report,
                   exported>>

\* line 162, lines 100-102: entering run_polishing
RunPolishingEnter ==
    /\ pc = "exported"
    /\ IF DOMAIN filenames = {}
       THEN /\ error' = "ValueError"
            /\ pc' = "failed"
            /\ cur_pos' = cur_pos
       ELSE /\ error' = error
            /\ pc' = "polishing"
            /\ cur_pos' = KeysMin(filenames)
    /\ UNCHANGED <<inputs, min_pos, max_pos, pos2read, resolved, filenames,
                   invoked, tool_exit, artifacts, final_sequences, report,
                   exported>>

\* line 104 for a position that has no pool: KeyError
RunPolishingKeyError ==
    /\ pc = "polishing"
    /\ cur_pos \notin DOMAIN filenames
    /\ error' = "KeyError"
    /\ pc' = "failed"
    /\ UNCHANGED <<inputs, min_pos, max_pos, pos2read, resolved, filenames,
                   cur_pos, invoked, tool_exit, artifacts, final_sequences,
                   report, exported>>

\* where the loop of line 102 goes after the body for pos
\* variant: range(min_pos, max_pos), without the last position
AfterInvocationShort(pos) ==
    IF pos + 1 < KeysMax(filenames)
    THEN /\ cur_pos' = pos + 1
         /\ pc' = "polishing"
    ELSE /\ cur_pos' = pos
         /\ pc' = "polished"
\* line 102 as written: range(min_pos, max_pos + 1)
AfterInvocation(pos) ==
    IF pos + 1 <= KeysMax(filenames)
    THEN /\ cur_pos' = pos + 1
         /\ pc' = "polishing"
    ELSE /\ cur_pos' = pos
         /\ pc' = "polished"

\* the polished files the tool leaves in pos_<pos> after so many rounds
ToolOutput(pos, rounds) == [i \in 1..rounds |-> PolishedUnit(pos, i)]

\* lines 104-114 for one position: subprocess.check_call starts the tool
RunPolishingInvoke ==
    /\ pc = "polishing"
    /\ cur_pos \in DOMAIN filenames
    /\ invoked' = Append(invoked, cur_pos)
    /\ pc' = "invoking"
    /\ UNCHANGED <<inputs, min_pos, max_pos, pos2read, resolved, filenames,
                   cur_pos, tool_exit, artifacts, final_sequences, report,
                   exported, error>>

\* line 114: the tool exits with status 0, having left all num_iters
\* polished files or one fewer; check_call returns and the loop goes on
ToolSucceeds ==
    /\ pc = "invoking"
    /\ tool_exit' = Append(tool_exit, 0)
    /\ \E rounds \in {num_iters - 1, num_iters} :
         artifacts' = [p \in DOMAIN artifacts \cup {cur_pos} |->
                          IF p = cur_pos THEN ToolOutput(cur_pos, rounds)
                          ELSE artifacts[p]]
    /\ AfterInvocation(cur_pos)
    /\ UNCHANGED <<inputs, min_pos, max_pos, pos2read, resolved, filenames,
                   invoked, final_sequences, report, exported, error>>

\* line 114: the tool exits with a non-zero status; check_call raises
\* variant: the exit status is not looked at (subprocess.call)
ToolFailsIgnored ==
    /\ pc = "invoking"
    /\ tool_exit' = Append(tool_exit, 1)
    /\ AfterInvocation(cur_pos)
    /\ UNCHANGED <<inputs, min_pos, max_pos, pos2read, resolved, filenames,
                   invoked, artifacts, final_sequences, report, exported,
                   error>>
\* line 114 as written
ToolFails ==
    /\ pc = "invoking"
    /\ tool_exit' = Append(tool_exit, 1)
    /\ error' = "CalledProcessError"
    /\ pc' = "failed"
    /\ UNCHANGED <<inputs, min_pos, max_pos, pos2read, resolved, filenames,
                   cur_pos, invoked, artifacts, final_sequences, report,
                   exported>>

\* line 163: final_sequences = self.read_polishing(read_unit_filenames)
ReadPolishing ==
    /\ pc = "polished"
    /\ LET res == read_polishing(filenames, artifacts, num_iters)
       IN  IF res.err = NoError
           THEN /\ final_sequences' = res.final
                /\ pc' = "assembled"
                /\ error' = error
           ELSE /\ final_sequences' = final_sequences
                /\ pc' = "failed"
                /\ error' = res.err
    /\ UNCHANGED <<inputs, min_pos, max_pos, pos2read, resolved, filenames,
                   cur_pos, invoked, tool_exit, artifacts, report, exported>>

\* line 164: compare_polished_sequences writes one comparison, raw and
\* homopolymer-compressed, for each i in range(1, num_iters)
ComparePolishedSequences ==
    /\ pc = "assembled"
    /\ report' = [k \in 1..(num_iters - 1) |-> <<k, k + 1>>]
    /\ pc' = "compared"
    /\ UNCHANGED <<inputs, min_pos, max_pos, pos2read, resolved, filenames,
                   cur_pos, invoked, tool_exit, artifacts, final_sequences,
                   exported, error>>

\* line 165: export_results writes final_sequence_<i> for i in 1..num_iters
ExportResults ==
    /\ pc = "compared"
    /\ exported' = 1..num_iters
    /\ pc' = "done"
    /\ UNCHANGED <<inputs, min_pos, max_pos, pos2read, resolved, filenames,
                   cur_pos, invoked, tool_exit, artifacts, final_sequences,
                   report, error>>

----------------------------------------------------------------------------
(* Specifications. *)

\* the whole run
Next ==
    \/ Construct
    \/ MapPos2Read
    \/ ExportReadUnits
    \/ RunPolishingEnter
    \/ RunPolishingKeyError
    \/ RunPolishingInvoke
    \/ ToolSucceeds
    \/ ToolFails
    \/ ReadPolishing
    \/ ComparePolishedSequences
    \/ ExportResults

Spec == Init /\ [][Next]_vars

\* the constructor and the resolver, called once or more
NextResolve ==
    \/ Construct
    \/ MapPos2Read
    \/ MapPos2ReadAgain

SpecResolve == InitResolve /\ [][NextResolve]_vars

\* the constructor, the resolver and the export of the pools
NextUnits ==
    \/ Construct
    \/ MapPos2Read
    \/ ExportReadUnits

SpecUnits == InitUnits /\ [][NextUnits]_vars

----------------------------------------------------------------------------
(* Properties of export_read_units, checked under SpecUnits. *)

\* the number of symbols of an aligned string that are not gaps
NonGapCount(r_al) == Cardinality({ k \in 1..Len(r_al) : r_al[k] # Ord.dash })

\* the length of the cleaned candidate of the k-th entry of the pool of pos
CandidateLen(pos, k) ==
    NonGapCount(motif_alignments[pos2read[pos][k][1]][pos2read[pos][k][2] + 1])

\* m is the high median of the candidate lengths of the pool of pos: at most
\* half of the candidates are shorter, and more than half are not longer
IsHighMedian(pos, m) ==
    LET n == Len(pos2read[pos])
    IN  /\ Cardinality({ k \in 1..n : CandidateLen(pos, k) < m }) <= n \div 2
        /\ Cardinality({ k \in 1..n : CandidateLen(pos, k) <= m }) > n \div 2

\* the entries of the pool of pos whose candidate has the high-median length
Tied(pos) ==
    { k \in 1..Len(pos2read[pos]) : IsHighMedian(pos, CandidateLen(pos, k)) }

\* the name under which the k-th entry of the pool of pos is exported
EntryName(pos, k) == SeqName(pos, pos2read[pos][k][1], pos2read[pos][k][2])

\* C1: once export_read_units has returned, every position of the pool map
\* has exactly one representative, a candidate of its pool whose cleaned
\* length is the high median of the cleaned lengths of the pool; the export
\* never raises.
C1_RepresentativeHasHighMedianLength ==
    /\ pc # "failed"
    /\ pc = "exported" =>
         /\ DOMAIN filenames = DOMAIN pos2read
         /\ \A pos \in DOMAIN pos2read :
              /\ Len(pos2read[pos]) > 0
              /\ IsHighMedian(pos, Len(filenames[pos].median_read_unit))
              /\ Cardinality({ k \in 1..Len(pos2read[pos]) :
                     EntryName(pos, k) = filenames[pos].template_read }) = 1
              /\ \E k \in 1..Len(pos2read[pos]) :
                     /\ EntryName(pos, k) = filenames[pos].template_read
                     /\ CandidateLen(pos, k) =
                            Len(filenames[pos].median_read_unit)

\* a pool of two candidates of different cleaned lengths, one of them with a
\* gap, has been exported
C1_Witness ==
    /\ pc = "exported"
    /\ \E pos \in DOMAIN pos2read :
         /\ Len(pos2read[pos]) = 2
         /\ CandidateLen(pos, 1) # CandidateLen(pos, 2)
         /\ \E k \in 1..2 :
              Len(motif_alignments[pos2read[pos][k][1]][pos2read[pos][k][2] + 1])
                  # CandidateLen(pos, k)

\* a is a proper prefix of b
ProperPrefix(a, b) == Len(a) < Len(b) /\ SubSeq(b, 1, Len(a)) = a

\* C2 as stated: the representative is the tied candidate of the
\* lexicographically smallest read identifier.
C2_SmallestReadIdentifier ==
    pc = "exported" =>
      \A pos \in DOMAIN pos2read : \A k \in Tied(pos) :
          EntryName(pos, k) = filenames[pos].template_read =>
              \A j \in Tied(pos) :
                  ~StrLess(pos2read[pos][j][1], pos2read[pos][k][1])

\* C2 amended: the representative is the tied candidate whose exported name
\* gen_pos=<p>|r_id=<id>|r_pos=<i> is smallest; that is the candidate of the
\* smallest read identifier whenever no tied identifier is a proper prefix
\* of another.
C2_SmallestSequenceName ==
    pc = "exported" =>
      \A pos \in DOMAIN pos2read :
        /\ \E k \in Tied(pos) : EntryName(pos, k) = filenames[pos].template_read
        /\ \A k \in Tied(pos) :
             EntryName(pos, k) = filenames[pos].template_read =>
               /\ \A j \in Tied(pos) \ {k} :
                      StrLess(EntryName(pos, k), EntryName(pos, j))
               /\ (\A i, j \in Tied(pos) :
                      ~ProperPrefix(pos2read[pos][i][1], pos2read[pos][j][1]))
                  => \A j \in Tied(pos) :
                         ~StrLess(pos2read[pos][j][1], pos2read[pos][k][1])

\* the candidates of "r1" and "r10" tie at a position, "r1" listed first,
\* and the one of "r10" has been chosen
C2_Witness ==
    /\ pc = "exported"
    /\ \E pos \in DOMAIN pos2read : \E j, k \in Tied(pos) :
         /\ j < k
         /\ pos2read[pos][j][1] = R1
         /\ pos2read[pos][k][1] = R10
         /\ filenames[pos].template_read = EntryName(pos, k)

----------------------------------------------------------------------------
(* Properties of the constructor and of map_pos2read, checked under         *)
(* SpecResolve.                                                             *)

Reads == SeqSet(read_order)
Placed == { r \in Reads : read_placement[r] # None }
Start(r) == Val(read_placement[r])
Units(r) == Len(motif_alignments[r])

\* whether occurrence i of read r is in the pool of some position
Contributes(r, i) ==
    \E pos \in DOMAIN pos2read : \E k \in 1..Len(pos2read[pos]) :
        pos2read[pos][k] = <<r, i>>

\* whether occurrence i of read r is in the pool of position pos
ContributesAt(r, i, pos) ==
    /\ pos \in DOMAIN pos2read
    /\ \E k \in 1..Len(pos2read[pos]) : pos2read[pos][k] = <<r, i>>

\* the second half of C3: a read that starts elsewhere than at min_pos and
\* whose span does not end at max_pos contributes neither its first nor
\* its last occurrence
UnanchoredEdgesExcluded ==
    \A r \in Placed :
        (Start(r) # min_pos /\ Start(r) + Units(r) # max_pos) =>
            /\ ~Contributes(r, 0)
            /\ ~Contributes(r, Units(r) - 1)

C4_EdgeOnlyAtItsOwnBoundary ==
    pc = "mapped" =>
        \A r \in Placed :
            /\ Contributes(r, 0) => Start(r) = min_pos
            /\ Contributes(r, Units(r) - 1) => Start(r) + Units(r) = max_pos

\* C4 amended: the first or the last occurrence of a read is in a pool only
\* if the read starts at min_pos or its span ends at max_pos; either anchor
\* admits both edge occurrences, each when its position lies in the window.
C4_EdgeOnlyIfAnchored ==
    pc = "mapped" =>
        \A r \in Placed : \A i \in {0, Units(r) - 1} :
            Contributes(r, i) <=>
                /\ Start(r) = min_pos \/ Start(r) + Units(r) = max_pos
                /\ Start(r) <= max_pos
                /\ min_pos <= Start(r) + i
                /\ Start(r) + i <= max_pos

\* a read of two or more records that starts at min_pos and ends before
\* max_pos has contributed its last occurrence
C4_Witness ==
    /\ pc = "mapped"
    /\ \E r \in Placed :
         /\ Start(r) = min_pos
         /\ Units(r) >= 2
         /\ Start(r) + Units(r) < max_pos
         /\ Contributes(r, Units(r) - 1)

\* C5: no occurrence of a read whose placement is unknown is in any pool,
\* after the first call of map_pos2read and after every further one.
C5_UnplacedReadsExcluded ==
    pc = "mapped" =>
        \A r \in Reads \ Placed :
            \A pos \in DOMAIN pos2read : \A k \in 1..Len(pos2read[pos]) :
                pos2read[pos][k][1] # r

\* map_pos2read has been called twice with an unplaced read among placed
\* ones that do contribute
C5_Witness ==
    /\ pc = "mapped"
    /\ resolved = 2
    /\ Reads \ Placed # {}
    /\ pos2read # <<>>

\* the positions the occurrences of the placed reads fall on
Reachable == UNION { Start(r)..(Start(r) + Units(r) - 1) : r \in Placed }

\* C9 as stated: an unbounded max_pos is set to the largest position an
\* occurrence of a placed read falls on.
C9_DefaultIsLastOccurrence ==
    (pc # "new" /\ params_max_pos = Inf /\ Reachable # {}) =>
        /\ max_pos \in Reachable
        /\ \A x \in Reachable : x <= max_pos

\* C9 amended: an unbounded max_pos is set to max(0, largest pos + len(ma)
\* over the placed reads): one past the largest position an occurrence
\* falls on, so no occurrence falls on max_pos or beyond it.
C9_DefaultIsOnePastLastOccurrence ==
    (pc # "new" /\ params_max_pos = Inf) =>
        /\ \A x \in Reachable : x < max_pos
        /\ max_pos >= 0
        /\ max_pos = 0 \/ max_pos - 1 \in Reachable
        /\ \A r \in Placed : Start(r) + Units(r) <= max_pos
        /\ max_pos = 0 \/ \E r \in Placed : Start(r) + Units(r) = max_pos

\* the constructor has resolved an unbounded max_pos from two placed reads
\* that end at different positions
C9_Witness ==
    /\ pc = "run"
    /\ params_max_pos = Inf
    /\ \E r, q \in Placed :
         /\ Start(r) + Units(r) < Start(q) + Units(q)
         /\ max_pos = Start(q) + Units(q)

----------------------------------------------------------------------------
(* Properties of run(), checked under Spec.                                 *)

\* the steps of run() after map_pos2read has returned
AfterMapping == {"mapped", "exported", "polishing", "invoking", "polished",
                 "assembled", "compared", "done", "failed"}
\* the steps of run() after read_polishing has returned
Assembled == {"assembled", "compared", "done"}

\* the positions between the smallest and the largest one that has a pool
Covered == IF DOMAIN filenames = {} THEN {}
           ELSE KeysMin(filenames)..KeysMax(filenames)

C7_WitnessOmitted ==
    /\ pc = "done"
    /\ \E pos \in min_pos..max_pos : pos \notin DOMAIN pos2read

\* the sequence read_polishing must return for round i over the positions
\* lo..hi: the polished unit of round i of each, in ascending order
RECURSIVE Concatenation(_, _, _)
Concatenation(lo, hi, i) ==
    IF lo > hi THEN <<>>
    ELSE artifacts[lo][i] \o Concatenation(lo + 1, hi, i)

C10_PolishingOrderAndAbort ==
    /\ \A k \in 1..Len(invoked) : invoked[k] = KeysMin(filenames) + k - 1
    /\ \A k \in 1..Len(invoked) : invoked[k] \in DOMAIN filenames
    /\ Len(tool_exit) = (IF pc = "invoking" THEN Len(invoked) - 1
                         ELSE Len(invoked))
    /\ \A k \in 1..Len(tool_exit) :
           tool_exit[k] # 0 =>
               /\ k = Len(tool_exit)
               /\ k = Len(invoked)
               /\ pc = "failed"
               /\ error = "CalledProcessError"
               /\ final_sequences = <<>>
               /\ report = <<>>
               /\ exported = {}
    /\ (pc = "failed" /\ error = "CalledProcessError") =>
           /\ tool_exit # <<>>
           /\ tool_exit[Len(tool_exit)] # 0
    /\ pc \in {"polished"} \cup Assembled =>
           /\ invoked = PyRange(KeysMin(filenames), KeysMax(filenames) + 1)
           /\ \A k \in 1..Len(tool_exit) : tool_exit[k] = 0
    /\ (final_sequences # <<>> \/ report # <<>> \/ exported # {}) =>
           pc \in Assembled

\* the tool has failed at the second of three or more positions
C10_Witness ==
    /\ pc = "failed"
    /\ error = "CalledProcessError"
    /\ Len(invoked) = 2
    /\ Cardinality(DOMAIN filenames) >= 3
    /\ tool_exit = <<0, 1>>

====
